---- MODULE Spec2Model ----
(***************************************************************************)
(* A model of jungle/ec2.py: the `ssh` and `ls` commands of the EC2 CLI    *)
(* group, with the provider (boto3), the prompt and the shell as external  *)
(* collaborators whose answers are chosen nondeterministically.            *)
(*                                                                         *)
(* Python strings are TLA+ strings (TLC evaluates \o and Len on them).     *)
(* Python None is the value None below; Str(x) is what '{0}'.format(x) and *)
(* str(x) produce, so that a None field renders as the text "None".        *)
(***************************************************************************)
EXTENDS Integers, Sequences, FiniteSets, TLC

\* ------------------------------------------------------------------ bounds
\* most instances a tag query of `ssh` returns
MaxMatches == 2
\* most instances a query of `ls` returns
MaxListed == 2

\* ------------------------------------------------------- Python primitives
None == "<None>"

\* str(x) / '{0}'.format(x)
Str(x) == IF x = None THEN "None" ELSE x

\* the exit status of a run that has not ended
Running == 0 - 1
\* the text of a botocore ClientError, as '{1}'.format(e) renders it
ClientErrorText == "ClientError"

\* instance.tags is None or a list of {'Key':..., 'Value':...}
NoneTags == [isNone |-> TRUE, items |-> <<>>]
TagList(l) == [isNone |-> FALSE, items |-> l]
Tag(k, v) == [Key |-> k, Value |-> v]

RECURSIVE Spaces(_)
Spaces(n) == IF n <= 0 THEN "" ELSE " " \o Spaces(n - 1)

\* '{0:<w}'.format(s) for a string s
Ljust(s, w) == s \o Spaces(w - Len(s))

RECURSIVE JoinLines(_)
\* '\n'.join(out)
JoinLines(out) ==
    IF out = <<>> THEN ""
    ELSE IF Len(out) = 1 THEN out[1]
    ELSE out[1] \o "\n" \o JoinLines(Tail(out))

SeqMax(s) == IF s = <<>> THEN 0 ELSE CHOOSE m \in {s[i] : i \in DOMAIN s} : \A i \in DOMAIN s : s[i] <= m

\* ------------------------------------------------------------ pure helpers
\* get_tag_value with the None check lost: the null marker comes out
get_tag_value_NullMarker(x, key) ==
    IF x.isNone THEN "None"
    ELSE LET matching == SelectSeq(x.items, LAMBDA y : y.Key = key)
         IN  IF matching # <<>> THEN matching[1].Value ELSE "None"

\* get_tag_value(x, key)
get_tag_value(x, key) ==
    IF x.isNone THEN ""
    ELSE LET matching == SelectSeq(x.items, LAMBDA y : y.Key = key)
             result == [k \in DOMAIN matching |-> matching[k].Value]
         IN  IF result # <<>> THEN result[1] ELSE ""

\* build_option_username(username)
build_option_username(username) ==
    IF username = None THEN "" ELSE " -l " \o username

\* _get_max_name_len(instances)
_get_max_name_len(instances) ==
    IF instances # <<>>
    THEN SeqMax([k \in DOMAIN instances |-> Len(get_tag_value(instances[k].tags, "Name"))])
    ELSE 0

\* line_format.format(...) of format_output, for one instance; None fields are
\* rendered by '{3}'.format(None) and str(None)
FormatLine(i, flag, name_len) ==
    LET tag_name == get_tag_value(i.tags, "Name")
    IN  IF flag
        THEN Ljust(tag_name, name_len) \o Ljust(i.state.Name, 16) \o Ljust(i.id, 21)
               \o Ljust(Str(i.private_ip_address), 16) \o Ljust(Str(i.public_ip_address), 16)
        ELSE tag_name \o "\t" \o i.state.Name \o "\t" \o i.id \o "\t"
               \o Str(i.private_ip_address) \o "\t" \o Str(i.public_ip_address)

\* format_output(instances, flag)
format_output(instances, flag) ==
    LET name_len == _get_max_name_len(instances) + 3
    IN  [k \in DOMAIN instances |-> FormatLine(instances[k], flag, name_len)]

\* '{3:<16}'.format(None): a TypeError on Python 3, the padded text "None" on
\* Python 2; the module runs on both
FormatMayRaise(instances, flag) ==
    flag /\ \E k \in DOMAIN instances : instances[k].private_ip_address = None

\* _get_instance_ip_address with use_private_ip ignored and no fallback
get_instance_ip_address_PublicOnly(instance, use_private_ip) ==
    [address |-> instance.public_ip_address, warned |-> FALSE]

\* _get_instance_ip_address(instance, use_private_ip): the address returned and
\* whether the warning is echoed
_get_instance_ip_address(instance, use_private_ip) ==
    IF use_private_ip
    THEN [address |-> instance.private_ip_address, warned |-> FALSE]
    ELSE IF instance.public_ip_address # None
    THEN [address |-> instance.public_ip_address, warned |-> FALSE]
    ELSE [address |-> instance.private_ip_address, warned |-> TRUE]

PublicIpWarning == "Public IP address not set. Attempting to use the private IP address."

\* ---- _parse_tags: the tag string is a sequence of tokens, the delimiters
\* ",", ":" and " " being tokens of their own
RECURSIVE Split(_, _)
\* s.split(sep)
Split(s, sep) ==
    IF \A k \in DOMAIN s : s[k] # sep THEN <<s>>
    ELSE LET p == CHOOSE k \in DOMAIN s : s[k] = sep /\ \A j \in 1..(k - 1) : s[j] # sep
         IN  <<SubSeq(s, 1, p - 1)>> \o Split(SubSeq(s, p + 1, Len(s)), sep)

RECURSIVE Strip(_)
\* s.strip()
Strip(s) ==
    IF s = <<>> THEN s
    ELSE IF Head(s) = " " THEN Strip(Tail(s))
    ELSE IF s[Len(s)] = " " THEN Strip(SubSeq(s, 1, Len(s) - 1))
    ELSE s

RECURSIVE Text(_)
\* the string a token sequence spells
Text(s) == IF s = <<>> THEN "" ELSE Head(s) \o Text(Tail(s))

\* tags_dict[tag_key] = tag_value, a dict being its items in insertion order
DictSet(d, k, v) ==
    IF \E j \in DOMAIN d : d[j].key = k
    THEN [j \in DOMAIN d |-> IF d[j].key = k THEN [key |-> k, value |-> v] ELSE d[j]]
    ELSE Append(d, [key |-> k, value |-> v])

RECURSIVE ParseTagList(_, _)
ParseTagList(tags_list, tags_dict) ==
    IF tags_list = <<>> THEN [ok |-> TRUE, dict |-> tags_dict]
    ELSE LET parts == Split(Strip(Head(tags_list)), ":")
         IN  IF Len(parts) # 2
             THEN [ok |-> FALSE, dict |-> <<>>]       \* ValueError of the unpacking
             ELSE ParseTagList(Tail(tags_list),
                               DictSet(tags_dict, Text(parts[1]), Text(parts[2])))

\* _parse_tags(tags)
_parse_tags(tags) == ParseTagList(Split(tags, ","), <<>>)

\* ---- sorted(instances, key=lambda instance: get_tag_value(instance.tags, 'Name'))
\* the strings the model uses as 'Name' values, in the order of Python's str "<"
NameOrder == <<"", "a", "b">>
StrRank(x) == CHOOSE k \in DOMAIN NameOrder : NameOrder[k] = x
StrLess(x, y) == StrRank(x) < StrRank(y)

SortKey(instance) == get_tag_value(instance.tags, "Name")

\* one instance put into a sorted list behind every element that is not greater
InsertSorted(sorted, i) ==
    LET before == SelectSeq(sorted, LAMBDA j : ~StrLess(SortKey(i), SortKey(j)))
        after  == SelectSeq(sorted, LAMBDA j : StrLess(SortKey(i), SortKey(j)))
    IN  before \o <<i>> \o after

RECURSIVE SortedFrom(_, _)
SortedFrom(done, rest) ==
    IF rest = <<>> THEN done ELSE SortedFrom(InsertSorted(done, Head(rest)), Tail(rest))

\* the sort left out: the provider's order
SortedByName_Unsorted(insts) == insts

\* sorted(...): Python's sort is stable
SortedByName(insts) == SortedFrom(<<>>, insts)

\* ---------------------------------------------------------------- provider
Range(s) == {s[k] : k \in DOMAIN s}

Instance(k, tags, state, private, public) ==
    [id |-> "i-" \o ToString(k), tags |-> tags, state |-> [Name |-> state],
     private_ip_address |-> private, public_ip_address |-> public, key_name |-> "key"]

\* the value of a local that is not bound yet
NoInstance ==
    [id |-> None, tags |-> NoneTags, state |-> [Name |-> None],
     private_ip_address |-> None, public_ip_address |-> None, key_name |-> None]

PrivateIp(k) == "10.0.0." \o ToString(k)
PublicIp(k) == "3.3.3." \o ToString(k)

\* a dict, or None
NoneDict == [isNone |-> TRUE, items |-> <<>>]
Dict(items) == [isNone |-> FALSE, items |-> items]

\* conditions of create_ssh_command (the Filters of the instance query)
Conditions(instance_tags) ==
    <<[Name |-> "instance-state-name", Values |-> <<"running">>]>>
    \o [k \in DOMAIN instance_tags.items |->
           [Name |-> "tag:" \o instance_tags.items[k].key,
            Values |-> <<instance_tags.items[k].value>>]]

\* the provider's filter: an instance is returned when it meets every condition
Matches(i, conditions) ==
    \A c \in Range(conditions) :
        IF c.Name = "instance-state-name"
        THEN i.state.Name \in Range(c.Values)
        ELSE /\ ~i.tags.isNone
             /\ \E t \in Range(i.tags.items) :
                    "tag:" \o t.Key = c.Name /\ t.Value \in Range(c.Values)

\* what a running instance of the account may look like besides the tags asked
\* for: its 'Name' tag (None: it has none) and whether it has a public address
NameTags == {None, "a", "b"}
Shapes == [name : NameTags, public : BOOLEAN]

ShapeLists(n) == UNION {[1..m -> Shapes] : m \in 0..n}

\* the k-th running instance of a query result, carrying the tags asked for
RunningInstance(k, shape, instance_tags) ==
    LET other == SelectSeq(instance_tags.items, LAMBDA kv : kv.key # "Name")
    IN  Instance(k,
                 TagList((IF shape.name = None THEN <<>> ELSE <<Tag("Name", shape.name)>>)
                         \o [j \in DOMAIN other |-> Tag(other[j].key, other[j].value)]),
                 "running", PrivateIp(k),
                 IF shape.public THEN PublicIp(k) ELSE None)

\* ---------------------------------------------------------- command lines
\* --instance-tags is a token sequence; this is the option left out
NoneTokens == <<None>>

InstanceIds == {None, "i-1"}
InstanceNames == {None, "a"}
TagStrings == {NoneTokens, <<"env">>, <<"env", ":", "prod", ":", "x">>,
               <<"env", ":", "prod", ",", " ", "role", ":", "web">>}
Usernames == {None, "bob"}
KeyFiles == {None, "k.pem"}
Ports == {22, 2222}
SshOptions == {None, "-v"}
GatewayIds == {None, "i-9"}
GatewayUsernames == {None, "admin"}
\* what the shell may return for the command it ran
ShellStatuses == {0, 255}

SshArgs ==
    [command : {"ssh"}, instance_id : InstanceIds, instance_name : InstanceNames,
     instance_tags : TagStrings, username : Usernames, key_file : KeyFiles,
     port : Ports, ssh_options : SshOptions, private_ip : BOOLEAN,
     gateway_instance_id : GatewayIds, gateway_username : GatewayUsernames,
     dry_run : BOOLEAN, name : {"*"}, list_formatted : {FALSE}]

\* `ls` has only NAME and --list-formatted; the rest is as `ssh` defaults it
LsArgs ==
    [command : {"ls"}, instance_id : {None}, instance_name : {None},
     instance_tags : {NoneTokens}, username : {None}, key_file : {None},
     port : {22}, ssh_options : {None}, private_ip : {FALSE},
     gateway_instance_id : {None}, gateway_username : {None},
     dry_run : {FALSE}, name : {"*", "a"}, list_formatted : BOOLEAN]

\* ------------------------------------------------------------------- state
VARIABLES
    args,               \* the options click hands the command
    pc,                 \* the statement the command is at
    exit_status,        \* the exit status of the process, Running until it ends
    stdout,             \* what click.echo wrote, one entry per call
    stderr,             \* what click.echo(err=True) and the interpreter wrote
    session_calls,      \* calls of create_session
    provider_calls,     \* requests sent to the provider
    prompts,            \* the numbers click.prompt returned, one per call
    shell_calls,        \* the [cmd, status] of every subprocess.call
    instance_tags_dict, \* ssh: instance_tags_dict
    instances,          \* create_ssh_command / ls: instances
    target_instances,   \* create_ssh_command: target_instances
    instance,           \* create_ssh_command: instance
    hostname,           \* create_ssh_command: hostname
    gateway_public_ip,  \* create_ssh_command: gateway_public_ip
    cmd,                \* ssh: cmd
    out,                \* ls: out
    client_errors       \* the requests the provider answered with a ClientError

vars == <<args, pc, exit_status, stdout, stderr, session_calls, provider_calls, prompts,
          shell_calls, instance_tags_dict, instances, target_instances, instance,
          hostname, gateway_public_ip, cmd, out, client_errors>>

locals == <<instance_tags_dict, instances, target_instances, instance, hostname,
            gateway_public_ip, cmd, out>>
calls == <<session_calls, provider_calls, prompts, shell_calls, client_errors>>

Init ==
    /\ args \in SshArgs \cup LsArgs
    /\ pc = "create_session"
    /\ exit_status = Running
    /\ stdout = <<>>
    /\ stderr = <<>>
    /\ session_calls = 0
    /\ provider_calls = 0
    /\ prompts = <<>>
    /\ shell_calls = <<>>
    /\ instance_tags_dict = NoneDict
    /\ instances = <<>>
    /\ target_instances = <<>>
    /\ instance = NoInstance
    /\ hostname = None
    /\ gateway_public_ip = None
    /\ cmd = None
    /\ out = <<>>
    /\ client_errors = <<>>

Traceback(exception) == "Traceback (most recent call last): " \o exception

\* sys.exit(status), or the end of the command (status 0)
Exit(status) ==
    /\ pc' = "done"
    /\ exit_status' = status

\* an exception nothing catches: the interpreter prints the traceback and
\* the process ends with status 1
Uncaught(exception) ==
    /\ stderr' = Append(stderr, Traceback(exception))
    /\ Exit(1)

\* ssh, ls: session = create_session(profile_name); the profile only names the
\* credentials the session is built from
CreateSession ==
    /\ pc = "create_session"
    /\ session_calls' = session_calls + 1
    /\ pc' = IF args.command = "ssh" THEN "check_filters" ELSE "ls_query"
    /\ UNCHANGED <<args, exit_status, stdout, stderr, provider_calls, prompts,
                   shell_calls, client_errors, locals>>

\* the count with --instance-tags left out of the tuple
CountNone_WithoutTags(a) ==
    (IF a.instance_id = None THEN 1 ELSE 0) + (IF a.instance_name = None THEN 1 ELSE 0) + 1

\* (instance_id, instance_name, instance_tags).count(None)
CountNone(a) ==
    (IF a.instance_id = None THEN 1 ELSE 0)
    + (IF a.instance_name = None THEN 1 ELSE 0)
    + (IF a.instance_tags = NoneTokens THEN 1 ELSE 0)

NoFilterMessage ==
    "One of --instance-id/-i or --instance-name/-n or --instance-tags/-t"
    \o " has to be specified."
ManyFiltersMessage ==
    "Only one of --instance-id/-i or --instance-name/-n or --instance-tags/-t "
    \o "can be specified at the same time."

\* ssh: the check of the three selection options
CheckFilters ==
    /\ pc = "check_filters"
    /\ LET filters == CountNone(args)
       IN  IF filters = 3
           THEN /\ stderr' = Append(stderr, NoFilterMessage)
                /\ Exit(1)
           ELSE IF filters < 2
           THEN /\ stderr' = Append(stderr, ManyFiltersMessage)
                /\ Exit(1)
           ELSE /\ pc' = "tags_dict"
                /\ UNCHANGED <<exit_status, stderr>>
    /\ UNCHANGED <<args, stdout, calls, locals>>

\* ssh: instance_tags_dict
BuildTagsDict ==
    /\ pc = "tags_dict"
    /\ IF args.instance_name # None
       THEN /\ instance_tags_dict' = Dict(<<[key |-> "Name", value |-> args.instance_name]>>)
            /\ pc' = "resolve"
            /\ UNCHANGED <<exit_status, stderr>>
       ELSE IF args.instance_tags # NoneTokens
       THEN LET parsed == _parse_tags(args.instance_tags)
            IN  IF parsed.ok
                THEN /\ instance_tags_dict' = Dict(parsed.dict)
                     /\ pc' = "resolve"
                     /\ UNCHANGED <<exit_status, stderr>>
                ELSE /\ Uncaught("ValueError")
                     /\ UNCHANGED instance_tags_dict
       ELSE /\ instance_tags_dict' = NoneDict
            /\ pc' = "resolve"
            /\ UNCHANGED <<exit_status, stderr>>
    /\ UNCHANGED <<args, stdout, calls, instances, target_instances, instance, hostname,
                   gateway_public_ip, cmd, out>>

\* "Invalid instance ID {0} ({1})".format(instance_id, e)
InvalidIdMessage(instance_id, e) ==
    "Invalid instance ID " \o Str(instance_id) \o " (" \o e \o ")"

\* stdout after hostname = _get_instance_ip_address(instance, use_private_ip)
EchoWarning(written, resolved) ==
    IF resolved.warned THEN Append(written, PublicIpWarning) ELSE written

\* what ec2.Instance(instance_id) may turn out to be once its attributes load
IdInstances(instance_id) ==
    {[Instance(1, NoneTags, st, pr, pu) EXCEPT !.id = instance_id] :
        st \in {"running"}, pr \in {PrivateIp(1)}, pu \in {None, PublicIp(1)}}
    \cup {[Instance(1, NoneTags, "stopped", None, None) EXCEPT !.id = instance_id]}

\* create_ssh_command, instance_id is not None: the lookup by id
ResolveById ==
    /\ pc = "resolve"
    /\ args.instance_id # None
    /\ provider_calls' = provider_calls + 1
    /\ \/ \E i \in IdInstances(args.instance_id) :
            LET resolved == _get_instance_ip_address(i, args.private_ip)
            IN  /\ instance' = i
                /\ hostname' = resolved.address
                /\ stdout' = EchoWarning(stdout, resolved)
                /\ pc' = "compose"
                /\ UNCHANGED <<exit_status, stderr, client_errors>>
       \/ /\ client_errors' = Append(client_errors, args.instance_id)
          /\ stderr' = Append(stderr, InvalidIdMessage(args.instance_id, ClientErrorText))
          /\ Exit(2)
          /\ UNCHANGED <<instance, hostname, stdout>>
    /\ UNCHANGED <<args, session_calls, prompts, shell_calls, instance_tags_dict,
                   instances, target_instances, gateway_public_ip, cmd, out>>

\* '[{0}]: {1}\t{2}\t{3}\t{4}\t{5}'.format(idx, i.id, ...)
ListLine(idx, i) ==
    "[" \o ToString(idx) \o "]: " \o i.id \o "\t" \o Str(i.public_ip_address) \o "\t"
        \o i.state.Name \o "\t" \o get_tag_value(i.tags, "Name") \o "\t" \o Str(i.key_name)

\* for idx, i in enumerate(instances): click.echo(...)
Listing(insts) == [k \in DOMAIN insts |-> ListLine(k - 1, insts[k])]

\* create_ssh_command, instance_tags is not None: the query and, for one match,
\* the choice of it; otherwise the candidates are listed
ResolveByTags ==
    /\ pc = "resolve"
    /\ args.instance_id = None
    /\ ~instance_tags_dict.isNone
    /\ provider_calls' = provider_calls + 1
    /\ \/ \E shapes \in ShapeLists(MaxMatches) :
            LET found  == [k \in DOMAIN shapes |->
                              RunningInstance(k, shapes[k], instance_tags_dict)]
                sorted == SortedByName(found)
            IN  /\ \A k \in DOMAIN found : Matches(found[k], Conditions(instance_tags_dict))
                /\ instances' = found
                /\ target_instances' = sorted
                /\ IF Len(sorted) = 1
                   THEN LET resolved == _get_instance_ip_address(sorted[1], args.private_ip)
                        IN  /\ instance' = sorted[1]
                            /\ hostname' = resolved.address
                            /\ stdout' = EchoWarning(stdout, resolved)
                            /\ pc' = "compose"
                   ELSE /\ stdout' = stdout \o Listing(found)
                        /\ pc' = "prompt"
                        /\ UNCHANGED <<instance, hostname>>
                /\ UNCHANGED <<exit_status, stderr, client_errors>>
       \/ /\ client_errors' = Append(client_errors, "instances.filter")
          /\ stderr' = Append(stderr, InvalidIdMessage(args.instance_id, ClientErrorText))
          /\ Exit(2)
          /\ UNCHANGED <<instances, target_instances, instance, hostname, stdout>>
    /\ UNCHANGED <<args, session_calls, prompts, shell_calls, instance_tags_dict,
                   gateway_public_ip, cmd, out>>

\* what the user may enter at the prompt; an empty response is the default, 0
PromptAnswers == (0 - 1)..MaxMatches

\* the range check off by one
InvalidSelection_OffByOne(n, selected_idx) == n < selected_idx \/ selected_idx < 0

\* len(target_instances) - 1 < selected_idx or selected_idx < 0
InvalidSelection(n, selected_idx) == n - 1 < selected_idx \/ selected_idx < 0

\* the place of s[idx] of a Python list s in the sequence s
PyIndex(s, idx) == IF idx < 0 THEN Len(s) + idx + 1 ELSE idx + 1

\* create_ssh_command: click.prompt and the choice of target_instances[selected_idx]
Prompt ==
    /\ pc = "prompt"
    /\ \E selected_idx \in PromptAnswers :
        /\ prompts' = Append(prompts, selected_idx)
        /\ IF InvalidSelection(Len(target_instances), selected_idx)
           THEN /\ stderr' = Append(stderr, "selected number [" \o ToString(selected_idx)
                                               \o "] is invalid")
                /\ Exit(2)
                /\ UNCHANGED <<stdout, instance, hostname>>
           ELSE IF PyIndex(target_instances, selected_idx) \notin DOMAIN target_instances
           THEN \* target_instances[selected_idx] raises IndexError
                /\ Uncaught("IndexError")
                /\ stdout' = Append(stdout, ToString(selected_idx) \o " is selected.")
                /\ UNCHANGED <<instance, hostname>>
           ELSE LET i == target_instances[PyIndex(target_instances, selected_idx)]
                    resolved == _get_instance_ip_address(i, args.private_ip)
                IN  /\ instance' = i
                    /\ hostname' = resolved.address
                    /\ stdout' = EchoWarning(
                           Append(stdout, ToString(selected_idx) \o " is selected."),
                           resolved)
                    /\ pc' = "compose"
                    /\ UNCHANGED <<exit_status, stderr>>
    /\ UNCHANGED <<args, session_calls, provider_calls, shell_calls, client_errors,
                   instance_tags_dict, instances, target_instances, gateway_public_ip,
                   cmd, out>>

\* key_file_option
key_file_option(key_file) == IF key_file = None THEN "" ELSE " -i " \o key_file

\* ssh_options, as the command takes it
ssh_options_text(ssh_options) == IF ssh_options = None THEN "" ELSE " " \o ssh_options

\* 'ssh -tt{0} {1}{2} -p {3}{4} ssh{5} {6}'.format(...)
GatewayCommand(a, gateway_ip, target) ==
    "ssh -tt" \o build_option_username(a.gateway_username) \o " " \o Str(gateway_ip)
        \o key_file_option(a.key_file) \o " -p " \o ToString(a.port)
        \o ssh_options_text(a.ssh_options) \o " ssh" \o build_option_username(a.username)
        \o " " \o Str(target)

\* the gateway branch keeping the address resolved for a direct connection
GatewayTarget_Resolved(i, host) == host

\* hostname = instance.private_ip_address, of the gateway branch
GatewayTarget(i, host) == i.private_ip_address

\* 'ssh{0} {1}{2} -p {3}{4}'.format(...)
DirectCommand(a, host) ==
    "ssh" \o build_option_username(a.username) \o " " \o Str(host)
        \o key_file_option(a.key_file) \o " -p " \o ToString(a.port)
        \o ssh_options_text(a.ssh_options)

\* what ec2.Instance(gateway_instance_id).public_ip_address may be
GatewayPublicIps == {None, PublicIp(9)}

\* create_ssh_command: the options, the gateway lookup and the command string
Compose ==
    /\ pc = "compose"
    /\ IF args.gateway_instance_id # None
       THEN /\ provider_calls' = provider_calls + 1
            /\ \/ \E ip \in GatewayPublicIps :
                    /\ gateway_public_ip' = ip
                    /\ hostname' = GatewayTarget(instance, hostname)
                    /\ cmd' = GatewayCommand(args, ip, hostname')
                    /\ pc' = "run"
                    /\ UNCHANGED <<exit_status, stderr, client_errors>>
               \/ \* the ClientError of the gateway lookup: no try encloses it
                  /\ client_errors' = Append(client_errors, args.gateway_instance_id)
                  /\ Uncaught(ClientErrorText)
                  /\ UNCHANGED <<hostname, gateway_public_ip, cmd>>
       ELSE /\ cmd' = DirectCommand(args, hostname)
            /\ pc' = "run"
            /\ UNCHANGED <<exit_status, stderr, provider_calls, hostname, gateway_public_ip,
                           client_errors>>
    /\ UNCHANGED <<args, stdout, session_calls, prompts, shell_calls, instance_tags_dict,
                   instances, target_instances, instance, out>>

\* ssh with the dry-run test lost: the command is printed and executed
Run_ExecutesAlways ==
    /\ pc = "run"
    /\ \E status \in ShellStatuses :
         shell_calls' = Append(shell_calls, [cmd |-> cmd, status |-> status])
    /\ stdout' = IF args.dry_run THEN Append(stdout, cmd) ELSE stdout
    /\ pc' = "done"
    /\ exit_status' = 0
    /\ UNCHANGED <<args, stderr, session_calls, provider_calls, prompts, client_errors,
                   locals>>

\* ssh: subprocess.call(cmd, shell=True), or click.echo(cmd); then the command
\* returns and click ends the process with status 0
Run ==
    /\ pc = "run"
    /\ IF ~args.dry_run
       THEN /\ \E status \in ShellStatuses :
                 shell_calls' = Append(shell_calls, [cmd |-> cmd, status |-> status])
            /\ UNCHANGED stdout
       ELSE /\ stdout' = Append(stdout, cmd)
            /\ UNCHANGED shell_calls
    /\ Exit(0)
    /\ UNCHANGED <<args, stderr, session_calls, provider_calls, prompts, client_errors,
                   locals>>

\* ---- ls
\* what an instance of the account may look like
LsTags == {NoneTags, TagList(<<>>), TagList(<<Tag("Name", "a")>>),
           TagList(<<Tag("env", "prod"), Tag("Name", "bb"), Tag("Name", "a")>>)}
LsShapes == [tags : LsTags, kind : {"public", "private", "terminated"}]
LsShapeLists(n) == UNION {[1..m -> LsShapes] : m \in 0..n}

LsInstance(k, shape) ==
    Instance(k, shape.tags,
             IF shape.kind = "terminated" THEN "terminated" ELSE "running",
             IF shape.kind = "terminated" THEN None ELSE PrivateIp(k),
             IF shape.kind = "public" THEN PublicIp(k) ELSE None)

\* the filter of ls: every instance, or those whose 'Name' tag is name
LsConditions(name) ==
    IF name = "*" THEN <<>> ELSE <<[Name |-> "tag:Name", Values |-> <<name>>]>>

\* ls: the query, format_output and the echo of the lines
LsQuery ==
    /\ pc = "ls_query"
    /\ provider_calls' = provider_calls + 1
    /\ \/ \E shapes \in LsShapeLists(MaxListed) :
            LET found == [k \in DOMAIN shapes |-> LsInstance(k, shapes[k])]
            IN  /\ \A k \in DOMAIN found : Matches(found[k], LsConditions(args.name))
                /\ instances' = found
                /\ \/ /\ out' = format_output(found, args.list_formatted)
                      /\ stdout' = Append(stdout, JoinLines(out'))
                      /\ Exit(0)
                      /\ UNCHANGED stderr
                   \/ /\ FormatMayRaise(found, args.list_formatted)
                      /\ Uncaught("TypeError")
                      /\ UNCHANGED <<stdout, out>>
                /\ UNCHANGED client_errors
       \/ \* a ClientError of the query: ls catches nothing
          /\ client_errors' = Append(client_errors, "instances.filter")
          /\ Uncaught(ClientErrorText)
          /\ UNCHANGED <<instances, stdout, out>>
    /\ UNCHANGED <<args, session_calls, prompts, shell_calls, instance_tags_dict,
                   target_instances, instance, hostname, gateway_public_ip, cmd>>

Next ==
    \/ CreateSession
    \/ CheckFilters
    \/ BuildTagsDict
    \/ ResolveById
    \/ ResolveByTags
    \/ Prompt
    \/ Compose
    \/ Run
    \/ LsQuery

Spec == Init /\ [][Next]_vars

\* ================================================================== claims
Ssh == args.command = "ssh"
Ended == pc = "done"

\* the selection options given on the command line
Selectors ==
    {o \in {"instance_id", "instance_name", "instance_tags"} :
        \/ o = "instance_id" /\ args.instance_id # None
        \/ o = "instance_name" /\ args.instance_name # None
        \/ o = "instance_tags" /\ args.instance_tags # NoneTokens}

ArgumentError == NoFilterMessage \in Range(stderr) \/ ManyFiltersMessage \in Range(stderr)

\* a tag string with an entry that is not key:value
MalformedTags ==
    /\ args.instance_name = None
    /\ args.instance_tags # NoneTokens
    /\ \E e \in Range(Split(args.instance_tags, ",")) : Len(Split(Strip(e), ":")) # 2

Printed(text) == Cardinality({k \in DOMAIN stdout : stdout[k] = text})

\* C1 (as stated): with zero or at least two selection options the ssh run ends
\* with status 1 and no collaborator has been contacted: no session was
\* constructed, no instance queried, no command executed; with exactly one
\* option the run proceeds to resolution.
C1_NoCollaboratorBeforeCheck ==
    (Ssh /\ Ended) =>
        IF Cardinality(Selectors) # 1
        THEN /\ exit_status = 1
             /\ session_calls = 0
             /\ provider_calls = 0
             /\ shell_calls = <<>>
        ELSE provider_calls >= 1

\* C1 (amended): with zero or at least two selection options the ssh run ends
\* with status 1 and the argument message on the error stream, after the one
\* call of create_session and with no instance query, prompt, output or
\* command execution; with exactly one option the check passes and the run
\* reaches the provider, unless the tag string is malformed, which ends the
\* run with an uncaught parse error before any query.
C1_ArgumentCheck ==
    (Ssh /\ Ended) =>
        IF Cardinality(Selectors) # 1
        THEN /\ exit_status = 1
             /\ ArgumentError
             /\ Len(stderr) = 1
             /\ session_calls = 1
             /\ provider_calls = 0
             /\ prompts = <<>>
             /\ shell_calls = <<>>
             /\ stdout = <<>>
             /\ cmd = None
        ELSE /\ ~ArgumentError
             /\ IF MalformedTags
                THEN /\ provider_calls = 0
                     /\ exit_status = 1
                     /\ stderr = <<Traceback("ValueError")>>
                ELSE provider_calls >= 1

C1_Witness ==
    /\ Ssh /\ Ended
    /\ Cardinality(Selectors) = 2
    /\ exit_status = 1
    /\ session_calls = 1
    /\ stderr = <<ManyFiltersMessage>>

\* C2: whenever the provider rejects an instance id, the primary one or the
\* gateway's, the ssh run ends with status 2 after an 'invalid instance id'
\* message on the error stream, and no command is printed or executed.
C2_RejectedIdExitsTwo ==
    \A id \in {args.instance_id, args.gateway_instance_id} :
        (Ssh /\ Ended /\ id # None /\ id \in Range(client_errors)) =>
            /\ exit_status = 2
            /\ InvalidIdMessage(id, ClientErrorText) \in Range(stderr)
            /\ cmd = None
            /\ shell_calls = <<>>

\* the instances of the query result that sort before the k-th: a smaller
\* 'Name' value, or the same value and an earlier place in the provider's order
Before(k) ==
    {j \in DOMAIN instances :
        \/ StrLess(SortKey(instances[j]), SortKey(instances[k]))
        \/ SortKey(instances[j]) = SortKey(instances[k]) /\ j < k}

\* the i-th (from 0) instance of the query result in 'Name' order
NthByName(i) == instances[CHOOSE k \in DOMAIN instances : Cardinality(Before(k)) = i]

MultiMatch == Ssh /\ Len(instances) > 1

\* C3: with N > 1 matches the prompt is issued once; an index i in 0..N-1
\* resolves to the i-th match in 'Name' order (ties in provider order), any
\* other index ends the run with status 2 and no command composed, printed
\* or executed.
C3_IndexSelection ==
    (MultiMatch /\ pc # "prompt") =>
        /\ Len(prompts) = 1
        /\ LET i == prompts[1]
               N == Len(instances)
           IN  IF 0 <= i /\ i < N
               THEN instance = NthByName(i)
               ELSE /\ Ended
                    /\ exit_status = 2
                    /\ cmd = None
                    /\ shell_calls = <<>>
                    /\ \A e \in Range(stdout) :
                           \E k \in 0..(N - 1), j \in DOMAIN instances :
                               e = ListLine(k, instances[j])
                    /\ instance = NoInstance

C3_Witness ==
    /\ MultiMatch
    /\ SortKey(instances[1]) = "b"
    /\ SortKey(instances[2]) = "a"
    /\ prompts = <<0>>
    /\ instance = instances[2]
    /\ pc = "run"

\* C4: with N > 1 matches the candidates are listed in 'Name' order, so the
\* instance printed next to index i is the one that entering i resolves to.
C4_ListingMatchesSelection ==
    (MultiMatch /\ pc # "resolve") =>
        \A i \in 0..(Len(instances) - 1) : Printed(ListLine(i, NthByName(i))) = 1

\* " <flag> <value>" when the option is given, nothing otherwise
Flag(flag, value) == IF value = None THEN "" ELSE " " \o flag \o " " \o value

\* the command was composed: create_ssh_command returned it
Composed == Ssh /\ cmd # None

\* C5: with a gateway the command is
\* ssh -tt[ -l <gateway_username>] <gateway public address>[ -i <key_file>] -p <port>
\* [ <extra options>] ssh[ -l <username>] <target private address>, whatever
\* the use-private flag and the target's public address are.
C5_GatewayCommand ==
    (Composed /\ args.gateway_instance_id # None) =>
        cmd = "ssh -tt" \o Flag("-l", args.gateway_username) \o " " \o Str(gateway_public_ip)
                \o Flag("-i", args.key_file) \o " -p " \o ToString(args.port)
                \o (IF args.ssh_options = None THEN "" ELSE " " \o args.ssh_options)
                \o " ssh" \o Flag("-l", args.username)
                \o " " \o Str(instance.private_ip_address)

C5_Witness ==
    /\ Composed
    /\ args.gateway_instance_id # None
    /\ ~args.private_ip
    /\ instance.public_ip_address # None
    /\ cmd = "ssh -tt -l admin 3.3.3.9 -i k.pem -p 2222 -v ssh -l bob 10.0.0.1"

\* the address a direct connection goes to
DirectAddress ==
    IF args.private_ip THEN instance.private_ip_address
    ELSE IF instance.public_ip_address # None THEN instance.public_ip_address
    ELSE instance.private_ip_address

\* C6: without a gateway the command is
\* ssh[ -l <username>] <address>[ -i <key_file>] -p <port>[ <extra options>],
\* with no nested ssh; <address> is the private address under the use-private
\* flag, else the public address if there is one, else the private address,
\* then with the warning echoed and the run not failing.
C6_DirectCommand ==
    (Composed /\ args.gateway_instance_id = None) =>
        /\ cmd = "ssh" \o Flag("-l", args.username) \o " " \o Str(DirectAddress)
                   \o Flag("-i", args.key_file) \o " -p " \o ToString(args.port)
                   \o (IF args.ssh_options = None THEN "" ELSE " " \o args.ssh_options)
        /\ (~args.private_ip /\ instance.public_ip_address = None) =>
               /\ Printed(PublicIpWarning) = 1
               /\ exit_status \in {Running, 0}
               /\ stderr = <<>>

C6_Witness ==
    /\ Composed
    /\ args.gateway_instance_id = None
    /\ ~args.private_ip
    /\ instance.public_ip_address = None
    /\ instance.private_ip_address # None
    /\ cmd = "ssh -l bob 10.0.0.2 -i k.pem -p 22 -v"
    /\ Ended

\* C7: under --dry-run the shell is never invoked and, once the command is
\* composed, it is printed exactly once and the run ends with status 0; in
\* either mode nothing is executed before create_ssh_command has returned.
C7_DryRun ==
    Ssh =>
        /\ args.dry_run => shell_calls = <<>>
        /\ (args.dry_run /\ Composed /\ Ended) => (exit_status = 0 /\ Printed(cmd) = 1)
        /\ (args.dry_run /\ ~Ended) => (cmd = None \/ Printed(cmd) = 0)
        /\ pc # "done" => shell_calls = <<>>
        /\ ~Composed => shell_calls = <<>>

C7_Witness ==
    /\ Composed /\ Ended
    /\ args.dry_run
    /\ stdout = <<cmd>>
    /\ exit_status = 0

\* C8: without --dry-run the composed command is executed exactly once by the
\* shell and the exit status of the run is the status the command returned.
C8_InheritsExitStatus ==
    (Composed /\ Ended /\ ~args.dry_run) =>
        /\ Len(shell_calls) = 1
        /\ shell_calls[1].cmd = cmd
        /\ exit_status = shell_calls[1].status

\* the query of the name/tag path answered with no instance
ZeroMatches ==
    /\ Ssh
    /\ args.instance_id = None
    /\ provider_calls >= 1
    /\ client_errors = <<>>
    /\ instances = <<>>

\* C10: when the name/tag query returns no instance, the user is prompted
\* once and every number entered ends the run with status 2 on the
\* invalid-selection path; no target is chosen, no command composed, printed
\* or executed.
C10_ZeroMatches ==
    ZeroMatches =>
        /\ pc \in {"prompt", "done"}
        /\ pc = "prompt" => prompts = <<>>
        /\ Ended => /\ Len(prompts) = 1
                    /\ exit_status = 2
                    /\ stderr = <<"selected number [" \o ToString(prompts[1]) \o "] is invalid">>
        /\ instance = NoInstance
        /\ cmd = None
        /\ stdout = <<>>
        /\ shell_calls = <<>>

C10_Witness ==
    /\ ZeroMatches
    /\ Ended
    /\ prompts = <<0>>
    /\ exit_status = 2

Ls == args.command = "ls"

\* the 'Name' tag of an instance, if it has one
HasName(i) == ~i.tags.isNone /\ \E t \in Range(i.tags.items) : t.Key = "Name"
FirstName(i) ==
    LET k == CHOOSE k \in DOMAIN i.tags.items :
                 /\ i.tags.items[k].Key = "Name"
                 /\ \A j \in 1..(k - 1) : i.tags.items[j].Key # "Name"
    IN  i.tags.items[k].Value

\* the tab-delimited line of an instance, absent addresses rendered as `absent`
TabLine(i, absent) ==
    (IF HasName(i) THEN FirstName(i) ELSE "") \o "\t" \o i.state.Name \o "\t" \o i.id
        \o "\t" \o (IF i.private_ip_address = None THEN absent ELSE i.private_ip_address)
        \o "\t" \o (IF i.public_ip_address = None THEN absent ELSE i.public_ip_address)

TabListed == Ls /\ ~args.list_formatted /\ Ended /\ exit_status = 0

\* C9 (as stated): tab-delimited format_output gives one line per instance in
\* input order, name, state, id, private address, public address between
\* single tabs; a missing 'Name' tag and a missing public address render as
\* the empty string, never as a null marker.
C9_AbsentAsEmpty ==
    TabListed =>
        /\ Len(out) = Len(instances)
        /\ \A k \in DOMAIN instances :
              out[k] = (IF HasName(instances[k]) THEN FirstName(instances[k]) ELSE "")
                         \o "\t" \o instances[k].state.Name \o "\t" \o instances[k].id
                         \o "\t" \o Str(instances[k].private_ip_address)
                         \o "\t" \o (IF instances[k].public_ip_address = None THEN ""
                                     ELSE instances[k].public_ip_address)

\* C9 (amended): as stated, except that an address the instance does not have
\* renders as the text "None"; only the missing 'Name' tag (or tags None)
\* renders as the empty string.
C9_TabDelimited ==
    TabListed =>
        /\ Len(out) = Len(instances)
        /\ \A k \in DOMAIN instances : out[k] = TabLine(instances[k], "None")
        /\ stdout = <<JoinLines(out)>>

C9_Witness ==
    /\ TabListed
    /\ Len(instances) = 2
    /\ instances[1].tags.isNone
    /\ instances[1].public_ip_address = None
    /\ instances[1].private_ip_address # None
    /\ out[1] = "\trunning\ti-1\t10.0.0.1\tNone"
    /\ HasName(instances[2])
    /\ instances[2].public_ip_address # None

====
